---- MODULE Spec2Model ----
(***************************************************************************)
(* Model of airtable-connector: the rate-limited Airtable client           *)
(* (lib/airtable.py), the warehouse loader (load.py) and the concurrent    *)
(* sender (send.py).  Each component has its own specification:            *)
(*   ReqSpec   AirtableClient.request                                      *)
(*   ReadSpec  AirtableClient.iter_chunks / AirtableClient.read            *)
(*   Spec      load / _load_chunks / rechunked over iter_chunks            *)
(*   SendSpec  send.run                                                    *)
(***************************************************************************)
EXTENDS Integers, Sequences, FiniteSets, TLC

VARIABLES
    \* ---- AirtableClient.request ----
    rq_pc,          \* "idle" | "loop" | "done": position inside request()
    method,         \* the method argument of the current call
    headers,        \* the headers sent with every attempt of the current call
    retries,        \* local `retries`
    wait,           \* local `wait`
    attempts,       \* session.request calls made by the current call
    lastStatus,     \* status_code of the latest response (0: none yet)
    statuses,       \* status_code of every response of the current call, in order
    slept,          \* the time.sleep calls of the current call, in order
    rq_out,         \* "none" | "returned" | "HTTPError"
    calls,          \* request() calls started so far
    \* ---- the Airtable table and AirtableClient.iter_chunks ----
    pages,          \* the static table as the server pages it: Seq of Seq of ids
    tok,            \* tok[i]: the cursor the server returns with page i (i < last)
    offset,         \* local `offset` of iter_chunks
    more,           \* the running scan has not seen a response without a cursor
    gets,           \* offsets carried by the GETs of the current scan (NONE: no offset)
    resps,          \* cursors carried by the responses of the current scan
    yielded,        \* chunks yielded by the current scan, in order
    exc,            \* the exception that left the scan, with the HTTP error behind it
    \* ---- AirtableClient.read ----
    rd_pc,          \* "idle" | "scan" | "returned" | "raised"
    restarts,       \* local `restarts` (of read, and of load)
    rd_result,      \* the list read returned
    scans,          \* scans started by the current call
    invalidated,    \* scans of the current call ended by AirtableIteratorError
    discarded,      \* chunks yielded by the invalidated scans of the current call
    \* ---- load / _load_chunks / rechunked, and the warehouse ----
    ld_pc,          \* position inside load(): see the Load* actions
    tmp,            \* the warehouse table '<table>__loader_tmp'
    final,          \* the warehouse table under the final name
    count,          \* local `count` of _load_chunks
    xs,             \* local `xs` of rechunked
    chunk,          \* the chunk rechunked handed to the for loop
    exists,         \* what table_exists returned
    ld_err,         \* the exception that left load ("none": none)
    appended,       \* rows appended by the current _load_chunks call
    oldFinal,       \* the final table as it was when load was called
    field_info,     \* the field_info argument of load
    oldTmp,         \* the temp table as it was when load was called
    prevErr,        \* how the previous call of load ended ("none": none, or returned)
    wasted,         \* whether a pass of this call appended rows and was then invalidated
    \* ---- send.run ----
    max_workers,    \* worker threads of the ThreadPoolExecutor
    fut,            \* fut[t]: "queued" | "running" | "ok" | "err", the future of table t
    result,         \* result[t]: rows the query of table t returned
    seen,           \* futures as_completed has yielded to the loop
    errors,         \* local `errors`: the tables whose query raised, in order
    sm_pc,          \* main thread: "loop" | "write" | "unwind" | "done"
    cur,            \* the table whose records are being written
    unsent,         \* records of `cur` not yet sent by write
    inflight,       \* threads executing AirtableClient.request right now
    apiLog,         \* requests the API received: table, records, calling thread
    sm_out,         \* how run ended: "none" | "returned" | "aggregate" | "write_error"
    \* ---- AirtableClient.write ----
    wr_pc,          \* "idle" | "loop" | "done" | "raised"
    wr_input,       \* the records as they were passed to write
    wr_records,     \* the caller's record dicts as they are now
    wr_k,           \* self.write_chunk_size
    wr_update,      \* the update argument
    wr_j,           \* chunks the for loop has taken from chunked
    wr_log,         \* requests issued by the call: method and payload, in order
    wr_err,         \* the exception that left write ("none": none)
    wr_failedAt,    \* number of the chunk whose request raised (0: none)
    \* ---- load.rename_column ----
    nm_pc,          \* "idle" | "once" | "twice"
    nm_in,          \* the name passed to rename_column
    nm_out,         \* rename_column(name)
    nm_twice,       \* rename_column(rename_column(name))
    \* ---- load.result_to_df ----
    df_pc,          \* "idle" | "done" | "raised"
    df_data,        \* the chunk of records passed to result_to_df
    df_info,        \* field_info: the (key, type) pairs in their defined order
    df_columns,     \* the column labels of the returned frame, in order
    df_rows,        \* the rows of the returned frame: one value per column
    \* ---- load.rechunked and the for loop of _load_chunks over it ----
    rc_pc,          \* "idle" | "gen" | "body" | "tailbody" | "ended" | "zero" | "cutover"
    rc_in,          \* the chunks the input iterator yields
    rc_n,           \* the argument n
    rc_i,           \* input chunks rechunked has taken
    rc_xs,          \* local `xs` of rechunked
    rc_out,         \* the chunks rechunked has yielded
    rc_count,       \* local `count` of _load_chunks
    rc_created      \* whether an append has created the temp table

reqVars == <<rq_pc, method, headers, retries, wait, attempts, lastStatus, statuses,
             slept, rq_out, calls>>

tableVars == <<pages, tok>>

scanVars == <<offset, more, gets, resps, yielded, exc>>

readVars == <<rd_pc, restarts, rd_result, scans, invalidated, discarded>>

callVars == <<field_info, oldTmp, prevErr>>

loadVars == <<ld_pc, tmp, final, count, xs, chunk, exists, ld_err, appended, oldFinal,
              wasted, callVars>>

sendVars == <<max_workers, fut, result, seen, errors, sm_pc, cur, unsent, inflight,
              apiLog, sm_out>>

writeVars == <<wr_pc, wr_input, wr_records, wr_k, wr_update, wr_j, wr_log, wr_err,
               wr_failedAt>>

nameVars == <<nm_pc, nm_in, nm_out, nm_twice>>

frameVars == <<df_pc, df_data, df_info, df_columns, df_rows>>

rechunkVars == <<rc_pc, rc_in, rc_n, rc_i, rc_xs, rc_out, rc_count, rc_created>>

vars == <<reqVars, tableVars, scanVars, readVars, loadVars, sendVars, writeVars,
          nameVars, frameVars, rechunkVars>>

notReq == <<tableVars, scanVars, readVars, loadVars, sendVars, writeVars, nameVars,
            frameVars, rechunkVars>>

notRead == <<reqVars, loadVars, sendVars, writeVars, nameVars, frameVars, rechunkVars>>

notLoad == <<reqVars, rd_pc, rd_result, scans, invalidated, discarded, sendVars,
             writeVars, nameVars, frameVars, rechunkVars>>

notSend == <<reqVars, tableVars, scanVars, readVars, loadVars, writeVars, nameVars,
             frameVars, rechunkVars>>

notWrite == <<reqVars, tableVars, scanVars, readVars, loadVars, sendVars, nameVars,
              frameVars, rechunkVars>>

notName == <<reqVars, tableVars, scanVars, readVars, loadVars, sendVars, writeVars,
             frameVars, rechunkVars>>

notFrame == <<reqVars, tableVars, scanVars, readVars, loadVars, sendVars, writeVars,
              nameVars, rechunkVars>>

notRechunk == <<reqVars, tableVars, scanVars, readVars, loadVars, sendVars, writeVars,
                nameVars, frameVars>>

(***************************************************************************)
(* Bounds of the request model.                                            *)
(***************************************************************************)
MaxCalls == 2

\* Pages of the table, and records per page (the API serves at most 100).
MaxPages == 2

PageCap == 2

\* GETs one scan may issue in the model (a scan of n pages needs n).
MaxGets == MaxPages + 1

\* The buffer size of rechunked in load (5000 records against pages of at most
\* 100), scaled to the page sizes of the model.
RechunkSize == 2

\* Source tables of a send run, and rows one query may return.
NTables == 3

MaxRows == 3

\* AirtableClient.write_chunk_size (10 by default), scaled to MaxRows.
write_chunk_size == 2

\* Records passed to one write call, and the largest configured chunk size.
MaxRecords == 5

MaxChunk == 3

\* Characters of a column name passed to rename_column.
MaxNameLen == 4

\* Records of a chunk passed to result_to_df, and keys of a FieldInfo.
MaxFrameRows == 2

MaxFields == 2

\* Chunks of an input of rechunked, records of one such chunk, and the argument n.
MaxInputChunks == 3

MaxInputChunkLen == 2

MaxRechunkN == 3

(***************************************************************************)
(* AirtableClient.request                                                  *)
(***************************************************************************)
requests_per_second_limit == 5

MaxRetries == 3

InitialWait == 30

\* Status codes the server may answer with.
Statuses == {200, 304, 404, 422, 429, 500}

Methods == {"get", "post", "patch"}

\* requests.Response.raise_for_status: 4xx and 5xx raise HTTPError.
RaisesForStatus(status) == status >= 400 /\ status < 600

\* headers = {"Content-Type": "application/json"} for put/post/patch, else {}
DefaultHeaders(m) ==
    IF m \in {"put", "post", "patch"} THEN {"Content-Type: application/json"} ELSE {}

NextWaitFloor(w) == (w * 3) \div 2

\* wait = math.ceil(wait * 1.5)
NextWait(w) == (w * 3 + 1) \div 2

Backoff(w) == [kind |-> "backoff", num |-> w, den |-> 1]

\* time.sleep(1 / self.requests_per_second_limit)
Throttle == [kind |-> "throttle", num |-> 1, den |-> requests_per_second_limit]

LoopBreaksOnSuccess(status, r) == status < 400 \/ r = MaxRetries

\* The loop exit test: response.status_code != 429 or retries == 3
LoopBreaks(status, r) == status # 429 \/ r = MaxRetries

FinishThrottleFirst(status) ==
    /\ slept' = Append(slept, Throttle)
    /\ rq_out' = IF RaisesForStatus(status) THEN "HTTPError" ELSE "returned"

\* After the loop: response.raise_for_status(); time.sleep(1/limit); return
Finish(status) ==
    IF RaisesForStatus(status)
    THEN /\ rq_out' = "HTTPError"
         /\ slept' = slept
    ELSE /\ rq_out' = "returned"
         /\ slept' = Append(slept, Throttle)

\* Entry of request(): headers, retries = 0, wait = 30.
RequestCall ==
    /\ rq_pc \in {"idle", "done"}
    /\ calls < MaxCalls
    /\ \E m \in Methods :
        /\ method' = m
        /\ headers' = DefaultHeaders(m)
    /\ rq_pc' = "loop"
    /\ retries' = 0
    /\ wait' = InitialWait
    /\ attempts' = 0
    /\ lastStatus' = 0
    /\ statuses' = <<>>
    /\ slept' = <<>>
    /\ rq_out' = "none"
    /\ calls' = calls + 1
    /\ UNCHANGED notReq

\* One iteration of the while loop: one session.request and what follows it.
RequestAttempt ==
    /\ rq_pc = "loop"
    /\ \E status \in Statuses :
        /\ attempts' = attempts + 1
        /\ lastStatus' = status
        /\ statuses' = Append(statuses, status)
        /\ IF LoopBreaks(status, retries)
           THEN /\ Finish(status)
                /\ rq_pc' = "done"
                /\ UNCHANGED <<retries, wait>>
           ELSE /\ retries' = retries + 1
                /\ slept' = Append(slept, Backoff(wait))
                /\ wait' = NextWait(wait)
                /\ rq_out' = "none"
                /\ rq_pc' = "loop"
    /\ UNCHANGED <<method, headers, calls>>
    /\ UNCHANGED notReq

(***************************************************************************)
(* The Airtable server: a static table served page by page.                *)
(***************************************************************************)
\* Python's None, as the value of `offset` and as "no offset in the URL".
NONE == "None"

\* Cursor values the server may hand out.
CursorValues == {"", "itrA", "itrB"}

CODE == "LIST_RECORDS_ITERATOR_NOT_AVAILABLE"

RECURSIVE Flatten(_)
Flatten(chunks) ==
    IF chunks = <<>> THEN <<>> ELSE Head(chunks) \o Flatten(Tail(chunks))

RECURSIVE SumTo(_, _)
SumTo(sizes, i) == IF i = 0 THEN 0 ELSE sizes[i] + SumTo(sizes, i - 1)

\* The table with page sizes `sizes`: records are numbered 1, 2, ... in scan order.
PagesOf(sizes) ==
    [i \in 1..Len(sizes) |-> [j \in 1..sizes[i] |-> SumTo(sizes, i - 1) + j]]

PageSizes == UNION {[1..n -> 0..PageCap] : n \in 1..MaxPages}

Injective(f) == \A i, j \in DOMAIN f : f[i] = f[j] => i = j

\* The page a GET is answered with: page 1 without an offset, else the page after
\* the one that carried the cursor.
ServerPage(reqOffset) ==
    IF reqOffset = NONE THEN 1
    ELSE (CHOOSE i \in 1..Len(tok) : tok[i] = reqOffset) + 1

\* GET /v0/{baseId}/{table}?offset={cursor} -> {records, offset?}
ServerResponse(reqOffset) ==
    LET i == ServerPage(reqOffset)
    IN  [records |-> pages[i],
         offset  |-> IF i <= Len(tok) THEN tok[i] ELSE NONE]

\* The value of the "error" member of an error payload.
ErrStr(text) == [t |-> "str", text |-> text, keys |-> {}, typ |-> ""]

ErrObj(typ) == [t |-> "obj", text |-> <<>>, keys |-> {"type", "message"}, typ |-> typ]

ErrNull == [t |-> "null", text |-> <<>>, keys |-> {}, typ |-> ""]

\* Bodies of an error response: not JSON, a JSON array, or a JSON object with or
\* without an "error" member.  A string is a sequence of words.
Payloads ==
    {[body |-> "unparsable", hasError |-> FALSE, error |-> ErrNull],
     [body |-> "array", hasError |-> FALSE, error |-> ErrNull],
     [body |-> "object", hasError |-> FALSE, error |-> ErrNull],
     [body |-> "object", hasError |-> TRUE, error |-> ErrNull]}
    \cup {[body |-> "object", hasError |-> TRUE, error |-> e] :
            e \in {ErrStr(<<CODE>>), ErrStr(<<"error:", CODE>>), ErrStr(<<"NOT_FOUND">>),
                   ErrObj(CODE), ErrObj("INVALID_REQUEST_UNKNOWN")}}

\* The HTTPError request() raises for a page: the final status and the body.
HttpErrors == [status : {404, 422, 429, 500}, payload : Payloads]

NoExc == [type |-> "none", status |-> 0, payload |-> CHOOSE p \in Payloads : p.body = "unparsable"]

\* Whether the payload's error names the iterator-not-available code.
PayloadNames(p) ==
    /\ p.body = "object"
    /\ p.hasError
    /\ \/ p.error.t = "str" /\ \E k \in 1..Len(p.error.text) : p.error.text[k] = CODE
       \/ p.error.t = "obj" /\ (p.error.typ = CODE \/ CODE \in p.error.keys)

(***************************************************************************)
(* AirtableClient.iter_chunks                                              *)
(***************************************************************************)
\* data.get("error", "")
ErrorMember(p) == IF p.hasError THEN p.error ELSE ErrStr(<<>>)

\* "LIST_RECORDS_ITERATOR_NOT_AVAILABLE" in value: substring of a string, key of
\* a dict, TypeError for None.
InValue(e) ==
    CASE e.t = "str" -> IF \E k \in 1..Len(e.text) : e.text[k] = CODE
                        THEN "True" ELSE "False"
      [] e.t = "obj" -> IF CODE \in e.keys THEN "True" ELSE "False"
      [] OTHER -> "TypeError"

\* is_iterator_error(exc): "True", "False", or the exception it raises itself.
is_iterator_error(e) ==
    IF e.status # 422 THEN "False"
    ELSE IF e.payload.body = "unparsable" THEN "False"
    ELSE IF e.payload.body = "array" THEN "AttributeError"
    ELSE InValue(ErrorMember(e.payload))

\* The except clause of iter_chunks: the exception that leaves the generator.
RaisedBy(e) ==
    LET r == is_iterator_error(e)
    IN  CASE r = "True" -> "AirtableIteratorError"
          [] r = "False" -> "HTTPError"
          [] OTHER -> r

\* url = f"{table_url}?offset={offset}" if offset else table_url
UrlOffset(off) == IF off # NONE /\ off # "" THEN off ELSE NONE

\* A new generator: offset = None.
ScanStart ==
    /\ offset' = NONE
    /\ more' = TRUE
    /\ gets' = <<>>
    /\ resps' = <<>>
    /\ yielded' = <<>>
    /\ exc' = NoExc

\* One pass of the while loop whose request succeeds: GET, yield the records,
\* take the next offset, stop when it is None.
ScanGetOk ==
    LET r == ServerResponse(UrlOffset(offset))
    IN  /\ more
        /\ Len(gets) < MaxGets
        /\ gets' = Append(gets, UrlOffset(offset))
        /\ resps' = Append(resps, r.offset)
        /\ yielded' = Append(yielded, r.records)
        /\ offset' = r.offset
        /\ more' = (r.offset # NONE)
        /\ exc' = NoExc

\* One pass of the while loop whose request raises HTTPError e.
ScanGetFail(e) ==
    /\ more
    /\ Len(gets) < MaxGets
    /\ gets' = Append(gets, UrlOffset(offset))
    /\ exc' = [type |-> RaisedBy(e), status |-> e.status, payload |-> e.payload]
    /\ UNCHANGED <<offset, more, resps, yielded>>

(***************************************************************************)
(* AirtableClient.read                                                     *)
(***************************************************************************)
MaxRestarts == 3

RestartsExhaustedEarly(r) == r = MaxRestarts - 1

\* if restarts == 3: raise
RestartsExhausted(r) == r = MaxRestarts

KeepList(previous) == previous

\* list(itertools.chain.from_iterable(...)) builds a new list on every pass
NewList(previous) == <<>>

\* restarts = 0, then the first pass of the while loop starts a scan.
ReadCall ==
    /\ rd_pc = "idle"
    /\ rd_pc' = "scan"
    /\ restarts' = 0
    /\ rd_result' = <<>>
    /\ scans' = 1
    /\ invalidated' = 0
    /\ discarded' = 0
    /\ ScanStart
    /\ UNCHANGED <<tableVars, notRead>>

\* list(chain.from_iterable(iter_chunks)) pulls one more page and extends the
\* list; when the generator ends, the list is returned.
ReadGetOk ==
    /\ rd_pc = "scan"
    /\ ScanGetOk
    /\ rd_result' = rd_result \o yielded'[Len(yielded')]
    /\ IF more'
       THEN /\ rd_pc' = "scan"
       ELSE /\ rd_pc' = "returned"
    /\ UNCHANGED <<restarts, scans, invalidated, discarded>>
    /\ UNCHANGED <<tableVars, notRead>>

\* The page request raises: AirtableIteratorError restarts the scan, unless
\* restarts == 3; anything else leaves read.
ReadGetFail ==
    /\ rd_pc = "scan"
    /\ \E e \in HttpErrors :
        /\ ScanGetFail(e)
        /\ IF exc'.type = "AirtableIteratorError"
           THEN /\ invalidated' = invalidated + 1
                /\ discarded' = discarded + Len(yielded)
                /\ IF RestartsExhausted(restarts)
                   THEN /\ rd_pc' = "raised"
                        /\ UNCHANGED <<restarts, scans, rd_result>>
                   ELSE /\ rd_pc' = "restart"
                        /\ restarts' = restarts + 1
                        /\ UNCHANGED <<scans, rd_result>>
           ELSE /\ rd_pc' = "raised"
                /\ UNCHANGED <<restarts, scans, invalidated, discarded, rd_result>>
    /\ UNCHANGED <<tableVars, notRead>>

\* The next pass of read's while loop: a new generator, from a null cursor.
ReadRestart ==
    /\ rd_pc = "restart"
    /\ rd_pc' = "scan"
    /\ scans' = scans + 1
    /\ rd_result' = NewList(rd_result)
    /\ ScanStart
    /\ UNCHANGED <<restarts, invalidated, discarded>>
    /\ UNCHANGED <<tableVars, notRead>>

(***************************************************************************)
(* load.rename_column: names are sequences of one-character strings         *)
(***************************************************************************)
UpperLetters ==
    <<"A", "B", "C", "D", "E", "F", "G", "H", "I", "J", "K", "L", "M",
      "N", "O", "P", "Q", "R", "S", "T", "U", "V", "W", "X", "Y", "Z">>

LowerLetters ==
    <<"a", "b", "c", "d", "e", "f", "g", "h", "i", "j", "k", "l", "m",
      "n", "o", "p", "q", "r", "s", "t", "u", "v", "w", "x", "y", "z">>

Digits == {"0", "1", "2", "3", "4", "5", "6", "7", "8", "9"}

\* The character class [a-z0-9_].
NameChars == {LowerLetters[i] : i \in 1..26} \cup Digits \cup {"_"}

\* str.lower(), one character at a time.
lower(name) ==
    [i \in 1..Len(name) |->
        IF \E u \in 1..26 : UpperLetters[u] = name[i]
        THEN LowerLetters[CHOOSE u \in 1..26 : UpperLetters[u] = name[i]]
        ELSE name[i]]

RECURSIVE SkipOutside(_)
SkipOutside(s) ==
    IF s = <<>> \/ Head(s) \in NameChars THEN s ELSE SkipOutside(Tail(s))

\* re.sub(r"[^a-z0-9_]+", "_", s): every maximal run outside the class becomes "_".
RECURSIVE SubOutside(_)
SubOutside(s) ==
    IF s = <<>> THEN <<>>
    ELSE IF Head(s) \in NameChars THEN <<Head(s)>> \o SubOutside(Tail(s))
    ELSE <<"_">> \o SubOutside(SkipOutside(Tail(s)))

RECURSIVE SkipUnderscores(_)
SkipUnderscores(s) ==
    IF s = <<>> \/ Head(s) # "_" THEN s ELSE SkipUnderscores(Tail(s))

\* re.sub(r"_{2,}", "_", s): every maximal run of two or more "_" becomes "_".
RECURSIVE SubUnderscores(_)
SubUnderscores(s) ==
    IF s = <<>> THEN <<>>
    ELSE IF Head(s) = "_" THEN <<"_">> \o SubUnderscores(SkipUnderscores(Tail(s)))
    ELSE <<Head(s)>> \o SubUnderscores(Tail(s))

rename_column_one_pass(name) == SubOutside(lower(name))

rename_column(name) == SubUnderscores(SubOutside(lower(name)))

\* The characters the names of NameSpec are made of: an upper-case letter, a
\* lower-case letter, a digit, the underscore and two characters outside the class.
Alphabet == {"A", "b", "1", "_", " ", "-"}

Names == UNION {[1..n -> Alphabet] : n \in 0..MaxNameLen}

\* rename_column(name)
RenameColumn ==
    /\ nm_pc = "idle"
    /\ \E name \in Names :
        /\ nm_in' = name
        /\ nm_out' = rename_column(name)
    /\ nm_pc' = "once"
    /\ UNCHANGED nm_twice
    /\ UNCHANGED notName

\* rename_column applied to its own result.
RenameAgain ==
    /\ nm_pc = "once"
    /\ nm_twice' = rename_column(nm_out)
    /\ nm_pc' = "twice"
    /\ UNCHANGED <<nm_in, nm_out>>
    /\ UNCHANGED notName

(***************************************************************************)
(* load.process_record, maybe_jsonify, result_to_df                         *)
(***************************************************************************)
\* The implicit keys of an Airtable record.
IdName == <<"i", "d">>

CreatedName == <<"c", "r", "e", "a", "t", "e", "d", "T", "i", "m", "e">>

\* Field names: "A b", "c", "X!".
FieldAb == <<"A", " ", "b">>

FieldC == <<"c">>

FieldX == <<"X", "!">>

\* Keys a FieldInfo may have, and keys the fields of a record may have.
InfoNames == {FieldAb, FieldC, IdName}

RecordNames == {FieldAb, FieldX, IdName}

\* Field types; result_to_df serializes the second as JSON.
JsonTypes == {"multipleSelects", "multilineText", "formula"}

FieldTypes == {"singleLineText", "formula"}

\* A cell of a frame: missing (NaN), or the value of key `name` of record `rec`
\* (of the record itself if `top`, of its fields otherwise), raw or as a JSON string.
NA == [na |-> TRUE, json |-> FALSE, rec |-> 0, name |-> <<>>, top |-> FALSE]

Value(rec, name, top) ==
    [na |-> FALSE, json |-> FALSE, rec |-> rec, name |-> name, top |-> top]

\* A record of a chunk: id, createdTime and the populated fields.
AirtableRecord(n, populated) ==
    [id |-> Value(n, IdName, TRUE), createdTime |-> Value(n, CreatedName, TRUE),
     fields |-> [k \in populated |-> Value(n, k, FALSE)]]

Chunks ==
    UNION {{[r \in 1..n |-> AirtableRecord(r, pop[r])] :
                pop \in [1..n -> SUBSET RecordNames]} : n \in 0..MaxFrameRows}

\* FieldInfo: an ordered mapping, its keys distinct.
FieldInfos ==
    UNION {{info \in [1..n -> [key : InfoNames, type : FieldTypes]] :
                \A i, j \in 1..n : info[i].key = info[j].key => i = j} :
             n \in 0..MaxFields}

\* fields = record.pop("fields", {}); record.update(fields)
process_record(record) ==
    [k \in {IdName, CreatedName} \cup DOMAIN record.fields |->
        IF k \in DOMAIN record.fields THEN record.fields[k]
        ELSE IF k = IdName THEN record.id ELSE record.createdTime]

\* json.dumps(value) unless the value is missing.
maybe_jsonify(value) == IF value.na THEN value ELSE [value EXCEPT !.json = TRUE]

\* columns = ["id"] + list(field_info.keys()) + ["createdTime"]
FrameColumns(info) ==
    <<IdName>> \o [i \in 1..Len(info) |-> info[i].key] \o <<CreatedName>>

\* pd.DataFrame(process_records(data), columns=columns): one row per record,
\* one cell per column, missing where the record has no such key.
DataFrame(records, columns) ==
    [r \in 1..Len(records) |->
        [c \in 1..Len(columns) |->
            IF columns[c] \in DOMAIN records[r] THEN records[r][columns[c]] ELSE NA]]

result_to_df_populated_only(data, info) ==
    LET records == [r \in 1..Len(data) |-> process_record(data[r])]
        columns == SelectSeq(FrameColumns(info),
                             LAMBDA c : \E r \in 1..Len(records) : c \in DOMAIN records[r])
    IN  [columns |-> [c \in 1..Len(columns) |-> rename_column(columns[c])],
         rows    |-> DataFrame(records, columns)]

\* result_to_df(data, field_info): the frame, the JSON field types serialized,
\* the columns renamed by rename_column.
result_to_df(data, info) ==
    LET records == [r \in 1..Len(data) |-> process_record(data[r])]
        columns == FrameColumns(info)
        df      == DataFrame(records, columns)
    IN  [columns |-> [c \in 1..Len(columns) |-> rename_column(columns[c])],
         rows    |-> [r \in 1..Len(df) |->
                        [c \in 1..Len(columns) |->
                            IF /\ c > 1
                               /\ c < Len(columns)
                               /\ info[c - 1].type \in JsonTypes
                            THEN maybe_jsonify(df[r][c]) ELSE df[r][c]]]]

\* A FieldInfo key that repeats an implicit key gives the frame two columns of
\* one label; df[field_name] is then a frame, not a column.
DuplicateLabels(info) ==
    \E i \in 1..Len(info) : info[i].key \in {IdName, CreatedName}

DuplicateJsonLabel(info) ==
    \E i \in 1..Len(info) :
        /\ info[i].key \in {IdName, CreatedName}
        /\ info[i].type \in JsonTypes

\* result_to_df returns its frame.
ResultToDf ==
    /\ df_pc = "idle"
    /\ \E data \in Chunks, info \in FieldInfos :
        /\ ~DuplicateJsonLabel(info)
        /\ df_data' = data
        /\ df_info' = info
        /\ df_columns' = result_to_df(data, info).columns
        /\ df_rows' = result_to_df(data, info).rows
    /\ df_pc' = "done"
    /\ UNCHANGED notFrame

\* result_to_df raises: pandas refuses the duplicate labels, or maybe_jsonify is
\* applied to a frame.
ResultToDfRaises ==
    /\ df_pc = "idle"
    /\ \E data \in Chunks, info \in FieldInfos :
        /\ DuplicateLabels(info)
        /\ df_data' = data
        /\ df_info' = info
    /\ df_pc' = "raised"
    /\ UNCHANGED <<df_columns, df_rows>>
    /\ UNCHANGED notFrame

(***************************************************************************)
(* The warehouse, and load / _load_chunks / rechunked                      *)
(***************************************************************************)
Absent == [exists |-> FALSE, cols |-> <<>>, rows |-> <<>>]

Table(cols, rows) == [exists |-> TRUE, cols |-> cols, rows |-> rows]

\* The field_info arguments of load: no fields, or "c" and "A b".
LoadFieldInfos ==
    {<<>>,
     <<[key |-> FieldC, type |-> "singleLineText"], [key |-> FieldAb, type |-> "formula"]>>}

\* The columns of every frame _load_chunks materializes: result_to_df(..).columns.
LoadColumns(info) == result_to_df(<<>>, info).columns

\* Columns and rows of the final table before the load, rows of a temp table left
\* behind by an earlier failed load; the row of nulls of the zero-row branch.
OldCols == <<IdName>>

OldRows == <<-1, -2>>

LeftoverRows == <<-3>>

NullRow == 0

RechunkYieldsLoose(buf, n) == Len(buf) >= n - 1

\* if len(xs) >= n: yield xs
RechunkYields(buf, n) == Len(buf) >= n

\* df.to_sql(..., if_exists="append"): creates the table, with the frame's
\* columns, when missing.
MaterializeAppend(t, cols, rows) ==
    Table(IF t.exists THEN t.cols ELSE cols, t.rows \o rows)

\* load(): restarts = 0.
LoadCall ==
    /\ ld_pc = "idle"
    /\ ld_pc' = "drop"
    /\ restarts' = 0
    /\ oldFinal' = final
    /\ ScanStart
    /\ xs' = <<>>
    /\ count' = 0
    /\ appended' = <<>>
    /\ UNCHANGED <<tmp, final, chunk, exists, ld_err, wasted, callVars>>
    /\ UNCHANGED <<tableVars, notLoad>>

\* The next run: load() is called again, for the same table and destination,
\* after a call that a warehouse error ended.
LoadCallAgain ==
    /\ ld_pc = "failed"
    /\ ld_err = "WarehouseError"
    /\ prevErr = "none"
    /\ ld_pc' = "drop"
    /\ restarts' = 0
    /\ oldFinal' = final
    /\ oldTmp' = tmp
    /\ prevErr' = ld_err
    /\ ld_err' = "none"
    /\ ScanStart
    /\ xs' = <<>>
    /\ chunk' = <<>>
    /\ exists' = FALSE
    /\ count' = 0
    /\ appended' = <<>>
    /\ wasted' = FALSE
    /\ UNCHANGED <<tmp, final, field_info>>
    /\ UNCHANGED <<tableVars, notLoad>>

LoadSkipDropTemp ==
    /\ ld_pc = "drop"
    /\ ld_pc' = "pull"
    /\ UNCHANGED <<tmp, final, count, xs, chunk, exists, ld_err, appended, oldFinal, wasted, callVars>>
    /\ UNCHANGED <<restarts, scanVars, tableVars, notLoad>>

\* drop table if exists identifier('{schema}.{temporary_table}')
LoadDropTemp ==
    /\ ld_pc = "drop"
    /\ ld_pc' = "pull"
    /\ tmp' = Absent
    /\ UNCHANGED <<final, count, xs, chunk, exists, ld_err, appended, oldFinal, wasted, callVars>>
    /\ UNCHANGED <<restarts, scanVars, tableVars, notLoad>>

\* for chunk in chunks: rechunked pulls one page from iter_chunks, extends xs and
\* yields it once it holds n records.
LoadPullOk ==
    /\ ld_pc = "pull"
    /\ ScanGetOk
    /\ LET buf == xs \o yielded'[Len(yielded')]
       IN  IF RechunkYields(buf, RechunkSize)
           THEN /\ chunk' = buf
                /\ xs' = <<>>
                /\ ld_pc' = "append"
           ELSE /\ xs' = buf
                /\ chunk' = chunk
                /\ ld_pc' = "pull"
    /\ UNCHANGED <<tmp, final, count, exists, ld_err, appended, oldFinal, wasted, callVars>>
    /\ UNCHANGED <<restarts, tableVars, notLoad>>

\* iter_chunks has ended: rechunked yields what is left in xs, if anything, and
\* ends; then the for loop ends and _load_chunks tests count == 0.
LoadPullEnd ==
    /\ ld_pc = "pull"
    /\ ~more
    /\ IF xs # <<>>
       THEN /\ chunk' = xs
            /\ xs' = <<>>
            /\ ld_pc' = "append"
       ELSE /\ UNCHANGED <<chunk, xs>>
            /\ ld_pc' = IF count = 0 THEN "zero_mat" ELSE "describe"
    /\ UNCHANGED <<tmp, final, count, exists, ld_err, appended, oldFinal, wasted, callVars>>
    /\ UNCHANGED <<restarts, scanVars, tableVars, notLoad>>

LoadRestartsExhaustedEarly(r) == r = MaxRestarts - 1

\* load(): if restarts == 3: raise
LoadRestartsExhausted(r) == r = MaxRestarts

\* The page request raises inside the for loop: load catches
\* AirtableIteratorError and starts over (new generators, a new _load_chunks
\* call) unless restarts == 3; anything else leaves load.
LoadPullFail ==
    /\ ld_pc = "pull"
    /\ \E e \in HttpErrors :
        /\ ScanGetFail(e)
        /\ IF exc'.type = "AirtableIteratorError" /\ ~LoadRestartsExhausted(restarts)
           THEN /\ ld_pc' = "restart"
                /\ restarts' = restarts + 1
                /\ ld_err' = "none"
           ELSE /\ ld_pc' = "failed"
                /\ ld_err' = exc'.type
                /\ UNCHANGED restarts
        /\ wasted' = (wasted \/ (exc'.type = "AirtableIteratorError" /\ appended # <<>>))
    /\ UNCHANGED <<tmp, final, count, xs, chunk, exists, appended, oldFinal, callVars>>
    /\ UNCHANGED <<tableVars, notLoad>>

\* The next pass of load's while loop: iter_chunks, rechunked and _load_chunks
\* are called again.
LoadRestart ==
    /\ ld_pc = "restart"
    /\ ld_pc' = "drop"
    /\ ScanStart
    /\ xs' = <<>>
    /\ count' = 0
    /\ appended' = <<>>
    /\ UNCHANGED <<tmp, final, chunk, exists, ld_err, oldFinal, wasted, callVars>>
    /\ UNCHANGED <<restarts, tableVars, notLoad>>

\* materialize(connection, df, schema, temporary_table, if_exists="append");
\* count += len(df)
LoadAppend ==
    /\ ld_pc = "append"
    /\ tmp' = MaterializeAppend(tmp, LoadColumns(field_info), chunk)
    /\ count' = count + Len(chunk)
    /\ appended' = appended \o chunk
    /\ ld_pc' = "pull"
    /\ UNCHANGED <<final, xs, chunk, exists, ld_err, oldFinal, wasted, callVars>>
    /\ UNCHANGED <<restarts, scanVars, tableVars, notLoad>>

\* The append fails part-way: the table may have been created and some of the
\* chunk's rows inserted.
LoadAppendFails ==
    /\ ld_pc = "append"
    /\ \E k \in 0..(Len(chunk) - 1) :
        tmp' \in {tmp, MaterializeAppend(tmp, LoadColumns(field_info), SubSeq(chunk, 1, k))}
    /\ ld_pc' = "failed"
    /\ ld_err' = "WarehouseError"
    /\ UNCHANGED <<final, count, xs, chunk, exists, appended, oldFinal, wasted, callVars>>
    /\ UNCHANGED <<restarts, scanVars, tableVars, notLoad>>

LoadZeroMaterializeNoColumns ==
    /\ ld_pc = "zero_mat"
    /\ IF tmp.exists
       THEN /\ ld_pc' = "failed"
            /\ ld_err' = "ValueError"
            /\ tmp' = tmp
       ELSE /\ ld_pc' = "zero_del"
            /\ ld_err' = ld_err
            /\ tmp' = Table(<<>>, <<NullRow>>)
    /\ UNCHANGED <<final, count, xs, chunk, exists, appended, oldFinal, wasted, callVars>>
    /\ UNCHANGED <<restarts, scanVars, tableVars, notLoad>>

\* count == 0: nulls_df is result_to_df([], field_info) with one row of None for
\* every column; materialize(nulls_df) with if_exists="fail" (ValueError when
\* the table exists).
LoadZeroMaterialize ==
    /\ ld_pc = "zero_mat"
    /\ IF tmp.exists
       THEN /\ ld_pc' = "failed"
            /\ ld_err' = "ValueError"
            /\ tmp' = tmp
       ELSE /\ ld_pc' = "zero_del"
            /\ ld_err' = ld_err
            /\ tmp' = Table(result_to_df(<<>>, field_info).columns, <<NullRow>>)
    /\ UNCHANGED <<final, count, xs, chunk, exists, appended, oldFinal, wasted, callVars>>
    /\ UNCHANGED <<restarts, scanVars, tableVars, notLoad>>

\* delete from identifier('{schema}.{temporary_table}')
LoadZeroDelete ==
    /\ ld_pc = "zero_del"
    /\ tmp' = Table(tmp.cols, <<>>)
    /\ ld_pc' = "describe"
    /\ UNCHANGED <<final, count, xs, chunk, exists, ld_err, appended, oldFinal, wasted, callVars>>
    /\ UNCHANGED <<restarts, scanVars, tableVars, notLoad>>

\* table_exists: describe table; False on ProgrammingError, which the warehouse
\* raises for a missing table and may raise for a table the session cannot see.
LoadTableExists ==
    /\ ld_pc = "describe"
    /\ \E found \in (IF final.exists THEN {TRUE, FALSE} ELSE {FALSE}) :
        /\ exists' = found
        /\ ld_pc' = IF found THEN "swap" ELSE "rename"
    /\ UNCHANGED <<tmp, final, count, xs, chunk, ld_err, appended, oldFinal, wasted, callVars>>
    /\ UNCHANGED <<restarts, scanVars, tableVars, notLoad>>

LoadSwapDropFirst ==
    /\ ld_pc = "swap"
    /\ final' = Absent
    /\ ld_pc' = "rename"
    /\ UNCHANGED <<tmp, count, xs, chunk, exists, ld_err, appended, oldFinal, wasted, callVars>>
    /\ UNCHANGED <<restarts, scanVars, tableVars, notLoad>>

\* alter table temp swap with final: one statement exchanges the two tables.
LoadSwap ==
    /\ ld_pc = "swap"
    /\ final' = tmp
    /\ tmp' = final
    /\ ld_pc' = "drop_old"
    /\ UNCHANGED <<count, xs, chunk, exists, ld_err, appended, oldFinal, wasted, callVars>>
    /\ UNCHANGED <<restarts, scanVars, tableVars, notLoad>>

\* drop table temp (now the old final table); return count
LoadDropOld ==
    /\ ld_pc = "drop_old"
    /\ tmp' = Absent
    /\ ld_pc' = "returned"
    /\ UNCHANGED <<final, count, xs, chunk, exists, ld_err, appended, oldFinal, wasted, callVars>>
    /\ UNCHANGED <<restarts, scanVars, tableVars, notLoad>>

\* alter table temp rename to final (fails when the final name is taken);
\* return count
LoadRename ==
    /\ ld_pc = "rename"
    /\ ~final.exists
    /\ final' = tmp
    /\ tmp' = Absent
    /\ ld_pc' = "returned"
    /\ UNCHANGED <<count, xs, chunk, exists, ld_err, appended, oldFinal, wasted, callVars>>
    /\ UNCHANGED <<restarts, scanVars, tableVars, notLoad>>

\* Any other warehouse statement raises: the error leaves load, nothing is
\* rolled back.
LoadStatementFails ==
    /\ ld_pc \in {"drop", "zero_mat", "zero_del", "describe", "swap", "drop_old", "rename"}
    /\ ld_pc' = "failed"
    /\ ld_err' = "WarehouseError"
    /\ UNCHANGED <<tmp, final, count, xs, chunk, exists, appended, oldFinal, wasted, callVars>>
    /\ UNCHANGED <<restarts, scanVars, tableVars, notLoad>>

(***************************************************************************)
(* load.rechunked over any chunk sequence, consumed by _load_chunks         *)
(***************************************************************************)
\* The chunk sequences an input iterator may yield: chunks may be empty; the
\* records are numbered in order.
InputChunks ==
    {PagesOf(sizes) :
        sizes \in UNION {[1..m -> 0..MaxInputChunkLen] : m \in 0..MaxInputChunks}}

\* chunks = rechunked(chunks, n); _load_chunks: count = 0; for chunk in chunks
RechunkedCall ==
    /\ rc_pc = "idle"
    /\ \E chunks \in InputChunks, n \in 1..MaxRechunkN :
        /\ rc_in' = chunks
        /\ rc_n' = n
    /\ rc_pc' = "gen"
    /\ rc_i' = 0
    /\ rc_xs' = <<>>
    /\ rc_out' = <<>>
    /\ rc_count' = 0
    /\ rc_created' = FALSE
    /\ UNCHANGED notRechunk

\* for chunk in chunks: xs.extend(chunk); if len(xs) >= n: yield xs
RechunkedExtend ==
    /\ rc_pc = "gen"
    /\ rc_i < Len(rc_in)
    /\ rc_i' = rc_i + 1
    /\ rc_xs' = rc_xs \o rc_in[rc_i + 1]
    /\ IF RechunkYields(rc_xs', rc_n)
       THEN /\ rc_out' = Append(rc_out, rc_xs')
            /\ rc_pc' = "body"
       ELSE /\ rc_out' = rc_out
            /\ rc_pc' = "gen"
    /\ UNCHANGED <<rc_in, rc_n, rc_count, rc_created>>
    /\ UNCHANGED notRechunk

\* The input is exhausted: if xs: yield xs
RechunkedTail ==
    /\ rc_pc = "gen"
    /\ rc_i = Len(rc_in)
    /\ rc_xs # <<>>
    /\ rc_out' = Append(rc_out, rc_xs)
    /\ rc_pc' = "tailbody"
    /\ UNCHANGED <<rc_in, rc_n, rc_i, rc_xs, rc_count, rc_created>>
    /\ UNCHANGED notRechunk

\* The input is exhausted and xs is empty: rechunked returns, the for loop ends.
RechunkedReturn ==
    /\ rc_pc = "gen"
    /\ rc_i = Len(rc_in)
    /\ rc_xs = <<>>
    /\ rc_pc' = "ended"
    /\ UNCHANGED <<rc_in, rc_n, rc_i, rc_xs, rc_out, rc_count, rc_created>>
    /\ UNCHANGED notRechunk

\* The body of the for loop: materialize(..., if_exists="append") creates the
\* temp table when it is missing; count += len(df). Then rechunked resumes:
\* xs = [] after a yield inside its loop, the end after the last yield.
LoopBodyAppend ==
    /\ rc_pc \in {"body", "tailbody"}
    /\ rc_created' = TRUE
    /\ rc_count' = rc_count + Len(rc_out[Len(rc_out)])
    /\ IF rc_pc = "body"
       THEN /\ rc_xs' = <<>>
            /\ rc_pc' = "gen"
       ELSE /\ rc_xs' = rc_xs
            /\ rc_pc' = "ended"
    /\ UNCHANGED <<rc_in, rc_n, rc_i, rc_out>>
    /\ UNCHANGED notRechunk

\* if count == 0: the branch that materializes nulls_df with if_exists="fail".
CountIsZero ==
    /\ rc_pc = "ended"
    /\ rc_count = 0
    /\ rc_pc' = "zero"
    /\ UNCHANGED <<rc_in, rc_n, rc_i, rc_xs, rc_out, rc_count, rc_created>>
    /\ UNCHANGED notRechunk

\* count != 0: straight to the cutover.
CountIsPositive ==
    /\ rc_pc = "ended"
    /\ rc_count # 0
    /\ rc_pc' = "cutover"
    /\ UNCHANGED <<rc_in, rc_n, rc_i, rc_xs, rc_out, rc_count, rc_created>>
    /\ UNCHANGED notRechunk

(***************************************************************************)
(* send.run: concurrent queries, serial writes                             *)
(***************************************************************************)
SourceTables == 1..NTables

\* Threads: the main thread, and for each table the worker that runs its query.
MainThread == 0

Min(a, b) == IF a < b THEN a ELSE b

Running == {t \in SourceTables : fut[t] = "running"}

Completed == {t \in SourceTables : fut[t] \in {"ok", "err"}}

\* A worker thread takes the next work item (the executor's queue is FIFO).
WorkerStart(t) ==
    /\ fut[t] = "queued"
    /\ \A u \in SourceTables : u < t => fut[u] # "queued"
    /\ Cardinality(Running) < max_workers
    /\ fut' = [fut EXCEPT ![t] = "running"]
    /\ UNCHANGED <<max_workers, result, seen, errors, sm_pc, cur, unsent, inflight,
                   apiLog, sm_out>>
    /\ UNCHANGED notSend

WorkerFinishAndSend(t) ==
    /\ fut[t] = "running"
    /\ \E n \in 1..MaxRows :
        /\ fut' = [fut EXCEPT ![t] = "ok"]
        /\ result' = [result EXCEPT ![t] = n]
        /\ inflight' = inflight \cup {t}
        /\ apiLog' = Append(apiLog, [table |-> t, first |-> 1,
                                     last |-> Min(n, write_chunk_size), thread |-> t])
    /\ UNCHANGED <<max_workers, seen, errors, sm_pc, cur, unsent, sm_out>>
    /\ UNCHANGED notSend

\* run_query on a worker thread: the query returns its rows or raises; the
\* worker touches nothing but its future.
WorkerFinish(t) ==
    /\ fut[t] = "running"
    /\ \/ \E n \in 0..MaxRows :
            /\ fut' = [fut EXCEPT ![t] = "ok"]
            /\ result' = [result EXCEPT ![t] = n]
       \/ /\ fut' = [fut EXCEPT ![t] = "err"]
          /\ result' = result
    /\ UNCHANGED <<max_workers, seen, errors, sm_pc, cur, unsent, inflight,
                   apiLog, sm_out>>
    /\ UNCHANGED notSend

QueryErrorBreaks(t) ==
    /\ errors' = Append(errors, t)
    /\ sm_pc' = "unwind"
    /\ UNCHANGED <<cur, unsent>>

\* except Exception as exc: log.error(...); errors.append((table_info, exc))
QueryErrorCollected(t) ==
    /\ errors' = Append(errors, t)
    /\ sm_pc' = "loop"
    /\ UNCHANGED <<cur, unsent>>

\* send_records: records = [...]; if records: airtable.write(records, ...)
SendRecords(t) ==
    /\ errors' = errors
    /\ cur' = t
    /\ unsent' = result[t]
    /\ sm_pc' = IF result[t] > 0 THEN "write" ELSE "loop"

\* One pass of the as_completed loop on the main thread.
MainNextFuture ==
    /\ sm_pc = "loop"
    /\ \E t \in Completed \ seen :
        /\ seen' = seen \cup {t}
        /\ IF fut[t] = "err" THEN QueryErrorCollected(t) ELSE SendRecords(t)
    /\ UNCHANGED <<max_workers, fut, result, inflight, apiLog, sm_out>>
    /\ UNCHANGED notSend

\* write: the main thread enters AirtableClient.request for the next chunk.
MainRequestBegin ==
    /\ sm_pc = "write"
    /\ MainThread \notin inflight
    /\ inflight' = inflight \cup {MainThread}
    /\ UNCHANGED <<max_workers, fut, result, seen, errors, sm_pc, cur, unsent,
                   apiLog, sm_out>>
    /\ UNCHANGED notSend

\* The request returns: the chunk has been received; write goes on with the next
\* chunk or returns to the loop.
MainRequestOk ==
    /\ MainThread \in inflight
    /\ LET n == Min(unsent, write_chunk_size)
           first == result[cur] - unsent + 1
       IN  /\ apiLog' = Append(apiLog, [table |-> cur, first |-> first,
                                        last |-> first + n - 1, thread |-> MainThread])
           /\ unsent' = unsent - n
           /\ sm_pc' = IF unsent - n > 0 THEN "write" ELSE "loop"
    /\ inflight' = inflight \ {MainThread}
    /\ UNCHANGED <<max_workers, fut, result, seen, errors, cur, sm_out>>
    /\ UNCHANGED notSend

MainRequestFailsLoopGoesOn ==
    /\ MainThread \in inflight
    /\ inflight' = inflight \ {MainThread}
    /\ sm_pc' = "loop"
    /\ sm_out' = "write_error"
    /\ UNCHANGED <<max_workers, fut, result, seen, errors, cur, unsent, apiLog>>
    /\ UNCHANGED notSend

\* The request raises: the error leaves write, send_records and the loop, and the
\* with block unwinds.
MainRequestFails ==
    /\ MainThread \in inflight
    /\ inflight' = inflight \ {MainThread}
    /\ sm_pc' = "unwind"
    /\ sm_out' = "write_error"
    /\ UNCHANGED <<max_workers, fut, result, seen, errors, cur, unsent, apiLog>>
    /\ UNCHANGED notSend

\* as_completed is exhausted: the with block ends.
MainLoopEnds ==
    /\ sm_pc = "loop"
    /\ seen = SourceTables
    /\ sm_pc' = "unwind"
    /\ UNCHANGED <<max_workers, fut, result, seen, errors, cur, unsent, inflight,
                   apiLog, sm_out>>
    /\ UNCHANGED notSend

\* Leaving the with block waits for every future (shutdown(wait=True)); then a
\* pending exception goes on, or run raises for the collected errors, or returns.
MainExit ==
    /\ sm_pc = "unwind"
    /\ Completed = SourceTables
    /\ sm_pc' = "done"
    /\ sm_out' = IF sm_out = "write_error" THEN "write_error"
                 ELSE IF errors # <<>> THEN "aggregate" ELSE "returned"
    /\ UNCHANGED <<max_workers, fut, result, seen, errors, cur, unsent, inflight, apiLog>>
    /\ UNCHANGED notSend

(***************************************************************************)
(* AirtableClient.write, chunked and the payload builders                   *)
(***************************************************************************)
\* A record dict: whether it has an "id" key, that id, and `val` standing for
\* its other fields.
Record(hasId, n) == [hasId |-> hasId, id |-> IF hasId THEN 100 + n ELSE 0, val |-> n]

\* record.pop("id"): the dict without its "id" key.
Pop(r) == [r EXCEPT !.hasId = FALSE, !.id = 0]

RecordLists ==
    UNION {{[i \in 1..n |-> Record(ids[i], i)] : ids \in [1..n -> BOOLEAN]} :
             n \in 0..MaxRecords}

RECURSIVE ChunksFrom(_, _, _)
ChunksFrom(seq, n, i) ==
    IF i >= Len(seq) THEN <<>>
    ELSE <<SubSeq(seq, i + 1, IF i + n < Len(seq) THEN i + n ELSE Len(seq))>>
         \o ChunksFrom(seq, n, i + n)

chunkedFullOnly(seq, n) == ChunksFrom(SubSeq(seq, 1, Len(seq) - (Len(seq) % n)), n, 0)

\* chunked(seq, n): for i in range(0, len(seq), n): yield seq[i : i + n]
chunked(seq, n) == ChunksFrom(seq, n, 0)

\* {"records": [{"fields": record} for record in records], "typecast": True}
build_append_payload(records) ==
    [raised  |-> FALSE,
     payload |-> [records |-> [i \in 1..Len(records) |->
                                  [hasId |-> FALSE, id |-> 0, fields |-> records[i]]],
                  typecast |-> TRUE],
     after   |-> records]

\* The first record of the chunk without an "id" key (0: none).
FirstMissing(records) ==
    IF \E i \in 1..Len(records) : ~records[i].hasId
    THEN CHOOSE i \in 1..Len(records) :
            /\ ~records[i].hasId
            /\ \A h \in 1..(i - 1) : records[h].hasId
    ELSE 0

build_update_payload_keeps_id(records) ==
    [raised  |-> FirstMissing(records) # 0,
     payload |-> [records |-> [i \in 1..Len(records) |->
                                  [hasId |-> TRUE, id |-> records[i].id,
                                   fields |-> records[i]]],
                  typecast |-> TRUE],
     after   |-> records]

\* {"records": [{"id": record.pop("id"), "fields": record} for record in records],
\*  "typecast": True}: KeyError at the first record without an id, the records
\* before it already popped.
build_update_payload(records) ==
    LET m == FirstMissing(records)
    IN  [raised  |-> m # 0,
         payload |-> [records |-> [i \in 1..Len(records) |->
                                      [hasId |-> TRUE, id |-> records[i].id,
                                       fields |-> Pop(records[i])]],
                      typecast |-> TRUE],
         after   |-> [i \in 1..Len(records) |->
                        IF m = 0 \/ i < m THEN Pop(records[i]) ELSE records[i]]]

\* method, build_payload = ("patch", build_update_payload) if update else
\* ("post", build_append_payload)
WriteMethod(update) == IF update THEN "patch" ELSE "post"

BuildPayload(update, records) ==
    IF update THEN build_update_payload(records) ELSE build_append_payload(records)

\* The chunk the for loop takes next, and the record list after its payload is built.
NextChunk == chunked(wr_records, wr_k)[wr_j + 1]

RecordsAfter(built) ==
    [i \in 1..Len(wr_records) |->
        IF i > wr_j * wr_k /\ i <= wr_j * wr_k + Len(built.after)
        THEN built.after[i - wr_j * wr_k] ELSE wr_records[i]]

\* write(records, table_name, update)
WriteCall ==
    /\ wr_pc = "idle"
    /\ \E recs \in RecordLists, k \in 1..MaxChunk, update \in BOOLEAN :
        /\ wr_input' = recs
        /\ wr_records' = recs
        /\ wr_k' = k
        /\ wr_update' = update
    /\ wr_pc' = "loop"
    /\ wr_j' = 0
    /\ wr_log' = <<>>
    /\ wr_err' = "none"
    /\ wr_failedAt' = 0
    /\ UNCHANGED notWrite

\* One pass of the for loop: the payload is built and its request returns.
WriteChunkOk ==
    /\ wr_pc = "loop"
    /\ wr_j < Len(chunked(wr_records, wr_k))
    /\ LET built == BuildPayload(wr_update, NextChunk)
       IN  /\ ~built.raised
           /\ wr_records' = RecordsAfter(built)
           /\ wr_log' = Append(wr_log, [method |-> WriteMethod(wr_update),
                                        payload |-> built.payload])
    /\ wr_j' = wr_j + 1
    /\ UNCHANGED <<wr_pc, wr_input, wr_k, wr_update, wr_err, wr_failedAt>>
    /\ UNCHANGED notWrite

WriteRequestFailsGoesOn ==
    /\ wr_pc = "loop"
    /\ wr_j < Len(chunked(wr_records, wr_k))
    /\ LET built == BuildPayload(wr_update, NextChunk)
       IN  /\ ~built.raised
           /\ wr_records' = RecordsAfter(built)
           /\ wr_log' = Append(wr_log, [method |-> WriteMethod(wr_update),
                                        payload |-> built.payload])
    /\ wr_j' = wr_j + 1
    /\ wr_failedAt' = wr_j + 1
    /\ wr_err' = "HTTPError"
    /\ UNCHANGED <<wr_pc, wr_input, wr_k, wr_update>>
    /\ UNCHANGED notWrite

\* One pass of the for loop: the payload is built and its request raises; the
\* error leaves write.
WriteRequestFails ==
    /\ wr_pc = "loop"
    /\ wr_j < Len(chunked(wr_records, wr_k))
    /\ LET built == BuildPayload(wr_update, NextChunk)
       IN  /\ ~built.raised
           /\ wr_records' = RecordsAfter(built)
           /\ wr_log' = Append(wr_log, [method |-> WriteMethod(wr_update),
                                        payload |-> built.payload])
    /\ wr_pc' = "raised"
    /\ wr_failedAt' = wr_j + 1
    /\ wr_err' = "HTTPError"
    /\ UNCHANGED <<wr_input, wr_k, wr_update, wr_j>>
    /\ UNCHANGED notWrite

\* One pass of the for loop: building the payload raises KeyError, before any
\* request for the chunk.
WriteBuildFails ==
    /\ wr_pc = "loop"
    /\ wr_j < Len(chunked(wr_records, wr_k))
    /\ LET built == BuildPayload(wr_update, NextChunk)
       IN  /\ built.raised
           /\ wr_records' = RecordsAfter(built)
    /\ wr_pc' = "raised"
    /\ wr_err' = "KeyError"
    /\ UNCHANGED <<wr_input, wr_k, wr_update, wr_j, wr_log, wr_failedAt>>
    /\ UNCHANGED notWrite

\* chunked is exhausted: write returns.
WriteReturn ==
    /\ wr_pc = "loop"
    /\ wr_j >= Len(chunked(wr_records, wr_k))
    /\ wr_pc' = "done"
    /\ UNCHANGED <<wr_input, wr_records, wr_k, wr_update, wr_j, wr_log, wr_err,
                   wr_failedAt>>
    /\ UNCHANGED notWrite

(***************************************************************************)
(* Specifications                                                          *)
(***************************************************************************)
ReqInit ==
    /\ rq_pc = "idle"
    /\ method = "get"
    /\ headers = {}
    /\ retries = 0
    /\ wait = InitialWait
    /\ attempts = 0
    /\ lastStatus = 0
    /\ statuses = <<>>
    /\ slept = <<>>
    /\ rq_out = "none"
    /\ calls = 0

\* A static table of up to MaxPages pages; the cursors are pairwise distinct.
TableInit ==
    \E sizes \in PageSizes :
        /\ pages = PagesOf(sizes)
        /\ tok \in {f \in [1..(Len(sizes) - 1) -> CursorValues] : Injective(f)}

ScanInit ==
    /\ offset = NONE
    /\ more = FALSE
    /\ gets = <<>>
    /\ resps = <<>>
    /\ yielded = <<>>
    /\ exc = NoExc

ReadInit ==
    /\ rd_pc = "idle"
    /\ restarts = 0
    /\ rd_result = <<>>
    /\ scans = 0
    /\ invalidated = 0
    /\ discarded = 0

\* With no table to read: one empty page.
TableNone ==
    /\ pages = <<(<<>>)>>
    /\ tok = <<>>

\* Before load: the final table is missing or holds old rows; an earlier failed
\* load may have left a temp table.
LoadInit ==
    /\ ld_pc = "idle"
    /\ field_info \in LoadFieldInfos
    /\ tmp \in {Absent, Table(LoadColumns(field_info), LeftoverRows)}
    /\ final \in {Absent, Table(OldCols, OldRows)}
    /\ count = 0
    /\ xs = <<>>
    /\ chunk = <<>>
    /\ exists = FALSE
    /\ ld_err = "none"
    /\ appended = <<>>
    /\ oldFinal = final
    /\ oldTmp = tmp
    /\ prevErr = "none"
    /\ wasted = FALSE

LoadNone ==
    /\ ld_pc = "idle"
    /\ field_info = <<>>
    /\ tmp = Absent
    /\ final = Absent
    /\ count = 0
    /\ xs = <<>>
    /\ chunk = <<>>
    /\ exists = FALSE
    /\ ld_err = "none"
    /\ appended = <<>>
    /\ oldFinal = final
    /\ oldTmp = tmp
    /\ prevErr = "none"
    /\ wasted = FALSE

\* run(): every table's query has been submitted to the executor.
SendInit ==
    /\ max_workers \in 1..NTables
    /\ fut = [t \in SourceTables |-> "queued"]
    /\ result = [t \in SourceTables |-> 0]
    /\ seen = {}
    /\ errors = <<>>
    /\ sm_pc = "loop"
    /\ cur = 1
    /\ unsent = 0
    /\ inflight = {}
    /\ apiLog = <<>>
    /\ sm_out = "none"

SendNone ==
    /\ max_workers = 1
    /\ fut = [t \in SourceTables |-> "queued"]
    /\ result = [t \in SourceTables |-> 0]
    /\ seen = {}
    /\ errors = <<>>
    /\ sm_pc = "idle"
    /\ cur = 1
    /\ unsent = 0
    /\ inflight = {}
    /\ apiLog = <<>>
    /\ sm_out = "none"

WriteInit ==
    /\ wr_pc = "idle"
    /\ wr_input = <<>>
    /\ wr_records = <<>>
    /\ wr_k = 1
    /\ wr_update = FALSE
    /\ wr_j = 0
    /\ wr_log = <<>>
    /\ wr_err = "none"
    /\ wr_failedAt = 0

NameInit ==
    /\ nm_pc = "idle"
    /\ nm_in = <<>>
    /\ nm_out = <<>>
    /\ nm_twice = <<>>

FrameInit ==
    /\ df_pc = "idle"
    /\ df_data = <<>>
    /\ df_info = <<>>
    /\ df_columns = <<>>
    /\ df_rows = <<>>

RechunkInit ==
    /\ rc_pc = "idle"
    /\ rc_in = <<>>
    /\ rc_n = 1
    /\ rc_i = 0
    /\ rc_xs = <<>>
    /\ rc_out = <<>>
    /\ rc_count = 0
    /\ rc_created = FALSE

ReqNext == RequestCall \/ RequestAttempt

ReqSpecInit ==
    ReqInit /\ TableNone /\ ScanInit /\ ReadInit /\ LoadNone /\ SendNone /\ WriteInit
    /\ NameInit /\ FrameInit /\ RechunkInit

ReqSpec == ReqSpecInit /\ [][ReqNext]_vars

ReadNext == ReadCall \/ ReadGetOk \/ ReadGetFail \/ ReadRestart

ReadSpecInit ==
    ReqInit /\ TableInit /\ ScanInit /\ ReadInit /\ LoadNone /\ SendNone /\ WriteInit
    /\ NameInit /\ FrameInit /\ RechunkInit

ReadSpec == ReadSpecInit /\ [][ReadNext]_vars

Init ==
    ReqInit /\ TableInit /\ ScanInit /\ ReadInit /\ LoadInit /\ SendNone /\ WriteInit
    /\ NameInit /\ FrameInit /\ RechunkInit

Next ==
    \/ LoadCall
    \/ LoadDropTemp
    \/ LoadPullOk
    \/ LoadPullEnd
    \/ LoadPullFail
    \/ LoadRestart
    \/ LoadAppend
    \/ LoadAppendFails
    \/ LoadZeroMaterialize
    \/ LoadZeroDelete
    \/ LoadTableExists
    \/ LoadSwap
    \/ LoadDropOld
    \/ LoadRename
    \/ LoadStatementFails

Spec == Init /\ [][Next]_vars

\* Two runs of load, the second after a first that a warehouse error ended; the
\* first finds no temp table, and the server's cursors are non-empty strings.
RetrySpecInit ==
    /\ Init
    /\ ~tmp.exists
    /\ \A i \in DOMAIN tok : tok[i] # ""
    /\ field_info # <<>>

RetryNext ==
    \/ LoadCall
    \/ LoadCallAgain
    \/ LoadDropTemp
    \/ LoadPullOk
    \/ LoadPullEnd
    \/ LoadPullFail
    \/ LoadRestart
    \/ LoadAppend
    \/ LoadAppendFails
    \/ LoadZeroMaterialize
    \/ LoadZeroDelete
    \/ LoadTableExists
    \/ LoadSwap
    \/ LoadDropOld
    \/ LoadRename
    \/ LoadStatementFails

RetrySpec == RetrySpecInit /\ [][RetryNext]_vars

SendNext ==
    \/ \E t \in SourceTables : WorkerStart(t)
    \/ \E t \in SourceTables : WorkerFinish(t)
    \/ MainNextFuture
    \/ MainRequestBegin
    \/ MainRequestOk
    \/ MainRequestFails
    \/ MainLoopEnds
    \/ MainExit

SendSpecInit ==
    ReqInit /\ TableNone /\ ScanInit /\ ReadInit /\ LoadNone /\ SendInit /\ WriteInit
    /\ NameInit /\ FrameInit /\ RechunkInit

SendSpec == SendSpecInit /\ [][SendNext]_vars

WriteNext ==
    \/ WriteCall
    \/ WriteChunkOk
    \/ WriteRequestFails
    \/ WriteBuildFails
    \/ WriteReturn

WriteSpecInit ==
    ReqInit /\ TableNone /\ ScanInit /\ ReadInit /\ LoadNone /\ SendNone /\ WriteInit
    /\ NameInit /\ FrameInit /\ RechunkInit

WriteSpec == WriteSpecInit /\ [][WriteNext]_vars

NameNext ==
    \/ RenameColumn
    \/ RenameAgain

NameSpecInit ==
    ReqInit /\ TableNone /\ ScanInit /\ ReadInit /\ LoadNone /\ SendNone /\ WriteInit
    /\ NameInit /\ FrameInit /\ RechunkInit

NameSpec == NameSpecInit /\ [][NameNext]_vars

FrameNext ==
    \/ ResultToDf
    \/ ResultToDfRaises

FrameSpecInit ==
    ReqInit /\ TableNone /\ ScanInit /\ ReadInit /\ LoadNone /\ SendNone /\ WriteInit
    /\ NameInit /\ FrameInit /\ RechunkInit

FrameSpec == FrameSpecInit /\ [][FrameNext]_vars

RechunkNext ==
    \/ RechunkedCall
    \/ RechunkedExtend
    \/ RechunkedTail
    \/ RechunkedReturn
    \/ LoopBodyAppend
    \/ CountIsZero
    \/ CountIsPositive

RechunkSpecInit ==
    ReqInit /\ TableNone /\ ScanInit /\ ReadInit /\ LoadNone /\ SendNone /\ WriteInit
    /\ NameInit /\ FrameInit /\ RechunkInit

RechunkSpec == RechunkSpecInit /\ [][RechunkNext]_vars

(***************************************************************************)
(* Claims                                                                  *)
(***************************************************************************)
Range(f) == {f[i] : i \in DOMAIN f}

FromTo(a, b) == [i \in 1..(b - a + 1) |-> a + i - 1]

\* The records of table t the API received, in the order it received them.
RECURSIVE SentRecords(_, _)
SentRecords(log, t) ==
    IF log = <<>> THEN <<>>
    ELSE (IF Head(log).table = t THEN FromTo(Head(log).first, Head(log).last) ELSE <<>>)
         \o SentRecords(Tail(log), t)

FailedTables == {t \in SourceTables : fut[t] = "err"}

\* C1: whenever _load_chunks (and so load) returns, with or without a table
\* under the final name before the call: the final table exists and holds exactly
\* the rows appended during this load (the table's records, none of the rows it or
\* a leftover temp table held before), no temp table exists, and the returned count
\* is the number of rows of the final table.
C1_LoadReturns ==
    ld_pc = "returned" =>
        /\ final.exists
        /\ final.rows = appended
        /\ appended = Flatten(pages)
        /\ Range(final.rows) \cap (Range(OldRows) \cup Range(LeftoverRows) \cup {NullRow}) = {}
        /\ ~tmp.exists
        /\ count = Len(final.rows)

C1_Witness ==
    /\ ld_pc = "returned"
    /\ oldFinal = Table(OldCols, OldRows)
    /\ restarts >= 1
    /\ count >= 3

\* C2: in every state of a load (after the temp drop, after each append, between
\* swap and drop, stopped on an error) the final name shows either exactly what it
\* showed when the load was called or the complete new data; a final table that
\* existed is never missing; before the cutover it still shows the old state.
C2_OldOrNew ==
    /\ \/ final = oldFinal
       \/ final.exists /\ final.rows = Flatten(pages) /\ final.rows = appended /\ ~more
    /\ oldFinal.exists => final.exists
    /\ ld_pc \in {"drop", "pull", "append", "restart", "zero_mat", "zero_del",
                  "describe", "swap", "rename"} => final = oldFinal

C2_Witness ==
    /\ ld_pc = "drop_old"
    /\ oldFinal = Table(OldCols, OldRows)
    /\ tmp = oldFinal
    /\ final = Table(LoadColumns(field_info), Flatten(pages))
    /\ Len(final.rows) >= 3

\* C7: a query failure is isolated: it neither ends the dispatcher loop nor
\* keeps another query from completing; when no API write raised, run ends after
\* every table was handled, every table whose query succeeded has had all its
\* records sent, in order and once, nothing was sent for a failed table, and run
\* raises the aggregate error naming exactly the failed tables (returns when
\* there are none).
C7_QueryFailureIsolated ==
    /\ (sm_pc \in {"unwind", "done"} /\ sm_out # "write_error") => seen = SourceTables
    /\ Range(errors) \subseteq FailedTables
    /\ (sm_pc = "done" /\ sm_out # "write_error") =>
          /\ Completed = SourceTables
          /\ \A t \in SourceTables :
                SentRecords(apiLog, t) =
                    (IF fut[t] = "ok" THEN FromTo(1, result[t]) ELSE <<>>)
          /\ Range(errors) = FailedTables
          /\ Len(errors) = Cardinality(FailedTables)
          /\ sm_out = (IF FailedTables # {} THEN "aggregate" ELSE "returned")

C7_Witness ==
    /\ sm_pc = "done"
    /\ sm_out = "aggregate"
    /\ errors = <<1>>
    /\ fut[2] = "ok"
    /\ result[2] = 3
    /\ SentRecords(apiLog, 2) = <<1, 2, 3>>

\* C8: under every interleaving of the query workers at most one request
\* through the shared client is in flight, and only the main thread ever executes
\* AirtableClient.request.
C8_SerialWrites ==
    /\ Cardinality(inflight) <= 1
    /\ inflight \subseteq {MainThread}
    /\ \A i \in 1..Len(apiLog) : apiLog[i].thread = MainThread

C8_Witness ==
    /\ MainThread \in inflight
    /\ Running # {}
    /\ apiLog # <<>>

\* The backoff sleeps of the current call, in order.
BackoffSleeps == [i \in 1..retries |-> slept[i].num]

\* C3: for a static table, whatever read returns after any number of
\* invalidated scans is the concatenation of the table's pages in order: nothing
\* from an invalidated pass is kept or duplicated.
C3_ReadEqualsSingleScan ==
    rd_pc = "returned" => rd_result = Flatten(pages)

C3_Witness ==
    /\ rd_pc = "returned"
    /\ restarts >= 2
    /\ discarded >= 2
    /\ Len(rd_result) >= 2

\* C4: read restarts the scan from a null cursor on each AirtableIteratorError, at
\* most 3 times per call, the counter never reset: every invalidated scan but the
\* one that raises is followed by one restart, and AirtableIteratorError leaves
\* read exactly when the scan after the 3rd restart is invalidated too (4 scans).
C4_RestartBudget ==
    /\ restarts <= 3
    /\ rd_pc \in {"scan", "returned", "raised"} => scans = restarts + 1
    /\ rd_pc = "restart" => scans = restarts
    /\ (gets # <<>>) => gets[1] = NONE
    /\ rd_pc \in {"scan", "restart", "returned"} => invalidated = restarts
    /\ (rd_pc = "raised" /\ exc.type = "AirtableIteratorError")
          => restarts = 3 /\ invalidated = 4 /\ scans = 4
    /\ (rd_pc = "raised" /\ exc.type # "AirtableIteratorError")
          => invalidated = restarts

C4_Witness ==
    /\ rd_pc = "raised"
    /\ exc.type = "AirtableIteratorError"
    /\ restarts = 3
    /\ invalidated = 4

\* C5: under sustained 429 the backoff sleeps of one call are 30, 45, 68 in that
\* order, one before each of retries 1 to 3; the 4th consecutive 429 is not retried
\* and raises HTTPError; a call makes at most 4 HTTP attempts.
C5_BackoffSequence ==
    /\ retries <= 3
    /\ attempts <= 4
    /\ Len(slept) >= retries
    /\ \A i \in 1..retries : slept[i].kind = "backoff"
    /\ BackoffSleeps = SubSeq(<<30, 45, 68>>, 1, retries)
    /\ rq_pc = "loop" => attempts = retries
    /\ rq_pc = "done" => attempts = retries + 1
    /\ (rq_pc = "done" /\ attempts = 4 /\ lastStatus = 429) => rq_out = "HTTPError"

C5_Witness ==
    /\ rq_pc = "done"
    /\ attempts = 4
    /\ lastStatus = 429
    /\ rq_out = "HTTPError"
    /\ BackoffSleeps = <<30, 45, 68>>

\* C6, as stated: however control leaves request (a response returned, or
\* HTTPError raised on the final response), the throttle sleep of
\* 1/requests_per_second_limit was the last thing the call did.
C6_AlwaysThrottles ==
    rq_pc = "done" => (slept # <<>> /\ slept[Len(slept)] = Throttle)

\* C6, amended: a call that returns a response (after 0 to 3 retries) sleeps
\* 1/requests_per_second_limit exactly once, as its last sleep; a call that raises
\* HTTPError, the exhausted 429 included, leaves without the throttle sleep.
C6_ThrottlesOnReturnOnly ==
    rq_pc = "done" =>
        /\ rq_out = (IF RaisesForStatus(lastStatus) THEN "HTTPError" ELSE "returned")
        /\ rq_out = "returned" =>
              /\ Len(slept) = retries + 1
              /\ slept[Len(slept)] = [kind |-> "throttle", num |-> 1, den |-> 5]
              /\ \A i \in 1..retries : slept[i].kind = "backoff"
        /\ rq_out = "HTTPError" =>
              /\ Len(slept) = retries
              /\ \A i \in 1..Len(slept) : slept[i].kind = "backoff"

C6_Witness ==
    /\ rq_pc = "done"
    /\ retries = 3
    /\ lastStatus = 429
    /\ rq_out = "HTTPError"
    /\ \A i \in 1..Len(slept) : slept[i].kind # "throttle"

\* C9: in one scan the first GET carries no offset, every later GET carries the
\* cursor of the response before it, the records of each response are yielded once
\* in request order, and the scan ends exactly when a response carries no cursor.
C9_CursorChain ==
    /\ (gets # <<>>) => gets[1] = NONE
    /\ \A k \in 2..Len(gets) : gets[k] = resps[k - 1]
    /\ Len(yielded) = Len(resps)
    /\ \A k \in 1..Len(yielded) : yielded[k] = pages[ServerPage(gets[k])]
    /\ rd_pc \in {"scan", "returned"} =>
          (more <=> (resps = <<>> \/ resps[Len(resps)] # NONE))

\* C10: AirtableIteratorError leaves iter_chunks exactly when the page request
\* failed with a 422 whose error payload names the iterator code; every other HTTP
\* error leaves it as HTTPError, and read does not restart for it.
C10_IteratorErrorExactly ==
    exc.type # "none" =>
        /\ exc.type = "AirtableIteratorError"
              <=> (exc.status = 422 /\ PayloadNames(exc.payload))
        /\ exc.type # "AirtableIteratorError" =>
              (exc.type = "HTTPError" /\ rd_pc = "raised")

\* C11, as stated: request ends with HTTPError for every response outside 2xx
\* that is not a 429 inside the retry budget.
C11_NonSuccessRaises ==
    (rq_pc = "done" /\ ~(lastStatus >= 200 /\ lastStatus < 300)) => rq_out = "HTTPError"

\* C11, amended: request ends with HTTPError for every 4xx or 5xx response
\* other than a 429 inside the retry budget, and on the first such response; a
\* response below 400 is returned.  Only a 429 is ever followed by another
\* attempt and by a backoff sleep; any other response, also after 429s, ends the
\* loop with its own outcome.
C11_ErrorsNotRetried ==
    /\ Len(statuses) = attempts
    /\ \A i \in 1..(Len(statuses) - 1) : statuses[i] = 429
    /\ (statuses # <<>> /\ lastStatus # 429) => rq_pc = "done"
    /\ rq_pc = "loop" => \A i \in 1..Len(statuses) : statuses[i] = 429
    /\ Cardinality({i \in 1..Len(slept) : slept[i].kind = "backoff"})
          = Cardinality({i \in 1..Len(statuses) : statuses[i] = 429 /\ i <= 3})
    /\ rq_pc = "done" =>
          /\ lastStatus = statuses[Len(statuses)]
          /\ rq_out = (IF lastStatus >= 400 THEN "HTTPError" ELSE "returned")

C11_Witness ==
    /\ rq_pc = "done"
    /\ statuses = <<429, 429, 500>>
    /\ rq_out = "HTTPError"
    /\ Len(slept) = 2

(***************************************************************************)
(* AirtableClient.write                                                      *)
(***************************************************************************)
CeilDiv(n, k) == (n + k - 1) \div k

\* The record an envelope stands for: its fields, with the envelope's id put back.
EnvelopeRecord(env) ==
    IF env.hasId THEN [hasId |-> TRUE, id |-> env.id, val |-> env.fields.val]
    ELSE env.fields

SentEnvelopes == Flatten([j \in 1..Len(wr_log) |-> wr_log[j].payload.records])

\* Position in the input of record i of chunk j.
InputIndex(j, i) == (j - 1) * wr_k + i

\* C12: a write of n records with chunk size k that returns has issued exactly
\* ceil(n/k) requests (none for n = 0), each with at most k records and all but
\* the last with exactly k; the records of the payloads, in issue order, are the
\* input sequence; in append mode every request is a POST with typecast true
\* whose envelopes carry no id and whose fields are the record; 25 records
\* with k = 10 are cut into chunks of 10, 10, 5.
C12_ChunkedRequests ==
    /\ [j \in 1..Len(chunked(FromTo(1, 25), 10)) |->
           Len(chunked(FromTo(1, 25), 10)[j])] = <<10, 10, 5>>
    /\ \A j \in 1..Len(wr_log) :
          /\ Len(wr_log[j].payload.records) <= wr_k
          /\ Len(wr_log[j].payload.records) >= 1
    /\ wr_pc = "done" =>
          /\ Len(wr_log) = CeilDiv(Len(wr_input), wr_k)
          /\ Len(wr_input) = 0 => wr_log = <<>>
          /\ \A j \in 1..(Len(wr_log) - 1) : Len(wr_log[j].payload.records) = wr_k
          /\ [i \in 1..Len(SentEnvelopes) |-> EnvelopeRecord(SentEnvelopes[i])] = wr_input
          /\ ~wr_update =>
                \A j \in 1..Len(wr_log) :
                    /\ wr_log[j].method = "post"
                    /\ wr_log[j].payload.typecast
                    /\ \A i \in 1..Len(wr_log[j].payload.records) :
                          /\ ~wr_log[j].payload.records[i].hasId
                          /\ wr_log[j].payload.records[i].fields
                                = wr_input[InputIndex(j, i)]

\* An append of 5 records with k = 2 has returned after requests of 2, 2, 1.
C12_Witness ==
    /\ wr_pc = "done"
    /\ ~wr_update
    /\ Len(wr_input) = 5
    /\ wr_k = 2
    /\ Len(wr_log) = 3
    /\ Len(wr_log[3].payload.records) = 1

\* C13: when the request for chunk j raises, write has ended with that error,
\* the requests issued are exactly those for chunks 1..j of the input, each
\* once and in order (chunk j being the one that failed), and none is issued
\* for a later chunk; at every moment the requests issued so far are the
\* payloads of the first chunks of the input, one each.
C13_FailureAborts ==
    /\ wr_failedAt # 0 =>
          /\ wr_pc = "raised"
          /\ wr_err = "HTTPError"
          /\ Len(wr_log) = wr_failedAt
    /\ Len(wr_log) <= Len(chunked(wr_input, wr_k))
    /\ \A j \in 1..Len(wr_log) :
          wr_log[j] = [method  |-> WriteMethod(wr_update),
                       payload |-> BuildPayload(wr_update,
                                                chunked(wr_input, wr_k)[j]).payload]
    /\ (wr_pc = "done" \/ wr_err = "KeyError") => wr_failedAt = 0

\* The request for chunk 2 of 3 raised: chunk 3 was never sent.
C13_Witness ==
    /\ wr_pc = "raised"
    /\ wr_failedAt = 2
    /\ Len(wr_log) = 2
    /\ Len(chunked(wr_input, wr_k)) = 3

\* C14: in update mode every request is a PATCH whose envelopes carry the
\* record's id beside a fields object without id; the id is removed from the
\* caller's record; write returns only if every record had an id, and a record
\* without one ends the write with KeyError with no request issued for its
\* chunk or any later one.
C14_UpdateEnvelopes ==
    wr_update =>
        /\ \A j \in 1..Len(wr_log) :
              /\ wr_log[j].method = "patch"
              /\ wr_log[j].payload.typecast
              /\ \A i \in 1..Len(wr_log[j].payload.records) :
                    LET env == wr_log[j].payload.records[i]
                        rec == wr_input[InputIndex(j, i)]
                    IN  /\ rec.hasId
                        /\ env.hasId
                        /\ env.id = rec.id
                        /\ ~env.fields.hasId
                        /\ env.fields.val = rec.val
                        /\ ~wr_records[InputIndex(j, i)].hasId
        /\ wr_pc = "done" => \A i \in 1..Len(wr_input) : wr_input[i].hasId
        /\ wr_err = "KeyError" =>
              /\ wr_pc = "raised"
              /\ Len(wr_log) < Len(chunked(wr_input, wr_k))
              /\ \E i \in 1..Len(chunked(wr_input, wr_k)[Len(wr_log) + 1]) :
                    ~chunked(wr_input, wr_k)[Len(wr_log) + 1][i].hasId
        /\ (wr_pc = "raised" /\ wr_failedAt = 0) => wr_err = "KeyError"

\* Record 4 of an update has no id: chunk 1 was sent, record 3 lost its id, and
\* no request was issued for chunk 2.
C14_Witness ==
    /\ wr_update
    /\ wr_err = "KeyError"
    /\ wr_k = 2
    /\ Len(wr_log) = 1
    /\ Len(wr_input) >= 4
    /\ wr_input[3].hasId
    /\ ~wr_input[4].hasId
    /\ ~wr_records[3].hasId

(***************************************************************************)
(* load.rename_column                                                        *)
(***************************************************************************)
\* The characters of s that are letters or digits of the class, in order.
Alnum(s) == SelectSeq(s, LAMBDA c : c \in NameChars \ {"_"})

\* C18: for every name, rename_column(name) contains only [a-z0-9_] and never
\* two adjacent underscores, keeps the lower-cased letters and digits of the
\* name in order, has an underscore exactly where the lower-cased name has a run
\* of other characters or underscores, and is a fixed point of rename_column;
\* "Created Time!!" gives created_time_ and "A--B" gives a_b.
C18_Canonical ==
    /\ rename_column(<<"C", "r", "e", "a", "t", "e", "d", " ", "T", "i", "m", "e",
                       "!", "!">>)
         = <<"c", "r", "e", "a", "t", "e", "d", "_", "t", "i", "m", "e", "_">>
    /\ rename_column(<<"A", "-", "-", "B">>) = <<"a", "_", "b">>
    /\ nm_pc # "idle" =>
          /\ \A i \in 1..Len(nm_out) : nm_out[i] \in NameChars
          /\ \A i \in 1..(Len(nm_out) - 1) : ~(nm_out[i] = "_" /\ nm_out[i + 1] = "_")
          /\ Alnum(nm_out) = Alnum(lower(nm_in))
          /\ Len(nm_out) <= Len(nm_in)
          /\ (nm_in # <<>> /\ lower(nm_in)[1] \in NameChars \ {"_"})
                <=> (nm_out # <<>> /\ nm_out[1] # "_")
          /\ (nm_in # <<>> /\ lower(nm_in)[Len(nm_in)] \in NameChars \ {"_"})
                <=> (nm_out # <<>> /\ nm_out[Len(nm_out)] # "_")
    /\ nm_pc = "twice" => nm_twice = nm_out

\* "A-_b": a run of an outside character and an underscore became one underscore.
C18_Witness ==
    /\ nm_pc = "twice"
    /\ nm_in = <<"A", "-", "_", "b">>
    /\ nm_out = <<"a", "_", "b">>
    /\ nm_twice = nm_out

(***************************************************************************)
(* load.result_to_df                                                         *)
(***************************************************************************)
\* C17: the frame result_to_df returns has one row per record of the chunk and,
\* in this order, the columns id, rename_column of every FieldInfo key in its
\* defined order, createdtime; every row has a cell for every column, missing
\* where the record does not populate the key, so a key no record populates
\* still has its column; a record field that is not a FieldInfo key has no column.
C17_FixedColumns ==
    df_pc = "done" =>
        /\ Len(df_rows) = Len(df_data)
        /\ Len(df_columns) = Len(df_info) + 2
        /\ df_columns[1] = <<"i", "d">>
        /\ df_columns[Len(df_columns)]
             = <<"c", "r", "e", "a", "t", "e", "d", "t", "i", "m", "e">>
        /\ \A i \in 1..Len(df_info) : df_columns[i + 1] = rename_column(df_info[i].key)
        /\ \A r \in 1..Len(df_rows) :
              /\ Len(df_rows[r]) = Len(df_columns)
              /\ \A i \in 1..Len(df_info) :
                    /\ df_rows[r][i + 1].na
                          <=> df_info[i].key \notin DOMAIN df_data[r].fields \cup {IdName}
                    /\ ~df_rows[r][i + 1].na =>
                          /\ df_rows[r][i + 1].rec = r
                          /\ df_rows[r][i + 1].name = df_info[i].key
                          /\ df_rows[r][i + 1].json <=> df_info[i].type \in JsonTypes
              /\ df_rows[r][1]
                    = (IF IdName \in DOMAIN df_data[r].fields
                       THEN df_data[r].fields[IdName] ELSE df_data[r].id)
              /\ df_rows[r][Len(df_columns)] = df_data[r].createdTime
        /\ (\A i \in 1..Len(df_info) : df_info[i].key # FieldX) =>
              \A c \in 1..Len(df_columns) : df_columns[c] # rename_column(FieldX)

\* Two records, FieldInfo keys "c" and "A b": no record populates "c", one
\* populates "X!", and the frame has the columns id, c, a_b, createdtime.
C17_Witness ==
    /\ df_pc = "done"
    /\ Len(df_data) = 2
    /\ Len(df_info) = 2
    /\ df_info[1].key = FieldC
    /\ df_info[2].key = FieldAb
    /\ FieldX \in DOMAIN df_data[1].fields
    /\ FieldAb \in DOMAIN df_data[2].fields
    /\ df_columns[2] = <<"c">>
    /\ df_columns[3] = <<"a", "_", "b">>
    /\ df_rows[1][2].na
    /\ df_rows[2][2].na

(***************************************************************************)
(* load: the zero-row branch, the next run after a failure, the restarts    *)
(***************************************************************************)
\* id, the canonical name of every FieldInfo key in its order, createdtime.
ExpectedCols(info) ==
    << <<"i", "d">> >> \o [i \in 1..Len(info) |-> rename_column(info[i].key)]
       \o << <<"c", "r", "e", "a", "t", "e", "d", "t", "i", "m", "e">> >>

\* C15: the zero-row branch is entered only with nothing appended; it creates
\* the temp table with the columns id, every FieldInfo key, createdtime and
\* one row of nulls, then deletes that row; the cutover follows, so a load that
\* returns 0 leaves an empty final table with exactly those columns, and no
\* temp table.
C15_EmptyTableShaped ==
    /\ ld_pc \in {"zero_mat", "zero_del"} => (count = 0 /\ appended = <<>>)
    /\ ld_pc = "zero_mat" => ~tmp.exists
    /\ ld_pc = "zero_del" => tmp = Table(ExpectedCols(field_info), <<NullRow>>)
    /\ (count = 0 /\ ld_pc \in {"describe", "swap", "rename"}) =>
          tmp = Table(ExpectedCols(field_info), <<>>)
    /\ (count = 0 /\ ld_pc = "returned") =>
          /\ final = Table(ExpectedCols(field_info), <<>>)
          /\ Range(final.cols)
               = {ExpectedCols(field_info)[1],
                  ExpectedCols(field_info)[Len(field_info) + 2]}
                 \cup {rename_column(field_info[i].key) : i \in 1..Len(field_info)}
          /\ ~tmp.exists
          /\ Flatten(pages) = <<>>

\* A load of an empty table over an old final table returned 0: the final table
\* is empty and has the four columns of the two-key FieldInfo.
C15_Witness ==
    /\ ld_pc = "returned"
    /\ count = 0
    /\ Len(field_info) = 2
    /\ oldFinal = Table(OldCols, OldRows)
    /\ final.exists
    /\ final.rows = <<>>
    /\ Len(final.cols) = 4

\* C16: a warehouse error ends the load (nothing is rolled back: the temp table
\* stays as the failed statement left it); in every run the temp table holds,
\* once the drop step is past, only the rows this pass appended; so a load
\* that returns after a run a warehouse error ended leaves the final table
\* with exactly the table's records, each once, in the current columns, counts
\* them, and leaves no temp table.
C16_SelfHealing ==
    /\ ld_err = "WarehouseError" => ld_pc = "failed"
    /\ prevErr \in {"none", "WarehouseError"}
    /\ ld_pc \in {"pull", "append", "describe", "swap", "rename"} =>
          /\ tmp.rows = appended
          /\ tmp.exists => tmp.cols = ExpectedCols(field_info)
    /\ (prevErr = "WarehouseError" /\ ld_pc = "returned") =>
          /\ final = Table(ExpectedCols(field_info), Flatten(pages))
          /\ final.rows = appended
          /\ count = Len(final.rows)
          /\ ~tmp.exists

\* The first run failed leaving rows in the temp table; the second returned.
C16_Witness ==
    /\ prevErr = "WarehouseError"
    /\ ld_pc = "returned"
    /\ oldTmp.exists
    /\ oldTmp.rows # <<>>
    /\ Len(final.rows) >= 2
    /\ final.rows = Flatten(pages)

\* C19: load restarts at most 3 times per call; every pass starts with a scan
\* from a null cursor, nothing appended and a count of 0, and drops the temp
\* table before it appends, so the temp table never holds rows of an
\* invalidated pass beside those of the current one; a load that returns has
\* put exactly the table's records in the final table and returns their number;
\* AirtableIteratorError leaves load only after the 3rd restart, the final
\* table then being what it was when load was called.
C19_RestartRecovery ==
    /\ restarts <= 3
    /\ ld_pc = "restart" => (restarts >= 1 /\ exc.type = "AirtableIteratorError")
    /\ ld_pc = "drop" =>
          (offset = NONE /\ gets = <<>> /\ yielded = <<>> /\ appended = <<>> /\ count = 0)
    /\ ld_pc \in {"pull", "append"} => (tmp.rows = appended /\ count = Len(appended))
    /\ ld_pc = "returned" =>
          (final.rows = Flatten(pages) /\ count = Len(Flatten(pages)))
    /\ ld_err = "AirtableIteratorError" =>
          (ld_pc = "failed" /\ restarts = 3 /\ final = oldFinal)
    /\ (ld_pc = "failed" /\ exc.type = "AirtableIteratorError") =>
          ld_err = "AirtableIteratorError"

\* The 4th invalidation of a call ends it with AirtableIteratorError; rows were
\* appended in an invalidated pass, and the old final table is untouched.
C19_Witness ==
    /\ ld_pc = "failed"
    /\ ld_err = "AirtableIteratorError"
    /\ restarts = 3
    /\ wasted
    /\ final = Table(OldCols, OldRows)

(***************************************************************************)
(* send.run: a failing write                                                 *)
(***************************************************************************)
\* Once a write has raised, the dispatcher is out of its loop for good.
WriteErrorState ==
    sm_out = "write_error" =>
        /\ sm_pc \in {"unwind", "done"}
        /\ inflight = {}
        /\ cur \in seen
        /\ \A t \in SourceTables \ seen : SentRecords(apiLog, t) = <<>>

\* After a write has raised nothing is sent, begun, collected or taken from
\* as_completed any more, and the outcome stays the write error.
WriteErrorStep ==
    sm_out = "write_error" =>
        /\ apiLog' = apiLog
        /\ inflight' = inflight
        /\ seen' = seen
        /\ errors' = errors
        /\ sm_out' = "write_error"

\* C20: when an API write raises during one table's send, the as_completed loop
\* is left: from then on no API request is begun or completes, for any table,
\* whatever queries finish afterwards and however they end; no further query
\* error is collected; and run ends with the write error even when query
\* failures had been collected before.
C20_WriteErrorStops == [](WriteErrorState) /\ [][WriteErrorStep]_vars

\* A query failure had been collected, then a write raised; a third table's query
\* succeeded with rows afterwards and nothing was sent for it; run ended with
\* the write error.
C20_Witness ==
    /\ sm_pc = "done"
    /\ sm_out = "write_error"
    /\ errors # <<>>
    /\ \E t \in SourceTables \ seen :
          /\ fut[t] = "ok"
          /\ result[t] > 0
          /\ SentRecords(apiLog, t) = <<>>

(***************************************************************************)
(* load.rechunked                                                            *)
(***************************************************************************)
\* The records of the input chunks rechunked has taken so far.
Consumed == Flatten(SubSeq(rc_in, 1, rc_i))

\* C21: for every input chunk sequence and every n >= 1, what rechunked has
\* yielded, followed by what it still buffers, is the concatenation of the input
\* chunks taken so far, and once it has ended the yielded chunks concatenate to
\* the whole input; no yielded chunk is empty; every yielded chunk but the one
\* yielded after the input ended has at least n records; so the temp table has
\* been created by an append exactly when count is positive, and the zero-row
\* branch is entered only when no append has created it.
C21_Rechunked ==
    /\ rc_pc = "gen" => Flatten(rc_out) \o rc_xs = Consumed
    /\ rc_pc = "body" => (Flatten(rc_out) = Consumed /\ rc_xs = rc_out[Len(rc_out)])
    /\ rc_pc \in {"tailbody", "ended", "zero", "cutover"} =>
          (Flatten(rc_out) = Flatten(rc_in) /\ rc_i = Len(rc_in))
    /\ \A j \in 1..Len(rc_out) :
          /\ rc_out[j] # <<>>
          /\ (j < Len(rc_out) \/ rc_pc \in {"gen", "body"}) => Len(rc_out[j]) >= rc_n
    /\ rc_created <=> rc_count > 0
    /\ rc_pc \in {"ended", "zero", "cutover"} => rc_count = Len(Flatten(rc_in))
    /\ rc_pc = "zero" => (~rc_created /\ rc_out = <<>> /\ Flatten(rc_in) = <<>>)

\* Input chunks of 2, 0 and 1 records with n = 2: rechunked yielded a chunk of 2
\* and then the remaining record, and the load goes to the cutover.
C21_Witness ==
    /\ rc_pc = "cutover"
    /\ rc_n = 2
    /\ Len(rc_in) = 3
    /\ rc_in[2] = <<>>
    /\ rc_out = << <<1, 2>>, <<3>> >>
    /\ rc_count = 3
====
